---- MODULE Spec2Model ----
(***************************************************************************)
(* Streaming recording session coordinator of scribe-ai (server.ts):       *)
(* the in-memory registry activeRecordings, the socket handlers            *)
(* audio-chunk / complete-recording / pause-recording / resume-recording / *)
(* disconnect, the background pipeline processRecordingWithGemini and the  *)
(* periodic sweep, together with the durable Recording rows they update.   *)
(***************************************************************************)
EXTENDS Integers, Sequences, FiniteSets, TLC

\* ---------------------------------------------------------------- bounds
Sessions == {"s1", "s2"}
Conns == {"c1", "c2"}
MaxEvents == 3      \* client events (audio-chunk, complete, pause, resume) handled overall
MaxTime == 2        \* clock ticks

\* ------------------------------------------------------ program constants
OneHourMs == 60 * 60 * 1000 \* staleness threshold of the periodic cleanup
TickMs == OneHourMs         \* the model's clock advances in steps of one hour

NoId == "undefined"         \* data.recordingId of a malformed event

\* error strings carried by recording-error events
ErrInvalidChunk == "Invalid audio chunk data"
ErrTypeError == "raw:TypeError"       \* reading data.chunk.byteLength of undefined
ErrNotFound == "Recording session not found. No audio chunks received."
ErrNoData == "No audio data received for processing"
ErrNoChunks == "No audio chunks available for processing"
ErrNoRow == "Recording not found in database"
ErrDb == "raw:db"                     \* message of an error thrown by prisma
ErrTranscribe == "raw:transcribe"     \* message of an error thrown by transcribeAudio
ErrSummarize == "raw:summarize"       \* message of an error thrown by generateSummary

HandlerErrors == {ErrInvalidChunk, ErrTypeError, ErrNotFound, ErrNoData}
PipelineErrors == {ErrNoChunks, ErrNoRow, ErrDb, ErrTranscribe, ErrSummarize}
ErrorKinds == HandlerErrors \cup PipelineErrors

\* server-to-client events; a recording-error is named by its error string
Kinds == {"audio-chunk-received", "status:PROCESSING", "status:PAUSED",
          "status:RECORDING", "transcription-update", "recording-completed",
          "transcription-error"}
         \cup ErrorKinds

\* client-to-server events, as logged in `received`
EvChunk == "audio-chunk"
EvFinalChunk == "audio-chunk:final"
EvInvalidChunk == "audio-chunk:invalid"
EvComplete == "complete-recording"
EvPause == "pause-recording"
EvResume == "resume-recording"

VARIABLES
    activeRecordings,   \* Map recordingId -> {socketId, startTime, chunks, isPaused}
    db,                 \* Recording rows: id -> [status, transcript, summary, duration]
    conn,               \* socket id -> "idle" | "open" | "closed"
    pipes,              \* per session, the runs of processRecordingWithGemini
    pending,            \* per session and target status, pause/resume handlers awaiting prisma.recording.update
    emitted,            \* emit calls so far: id -> kind -> [one: socket.emit, all: io.emit]
    now,                \* Date.now(), in ticks
    nextChunk,          \* per session, number of audio-chunk events accepted so far
    lastChunkAt,        \* per session, Date.now() at its latest accepted audio-chunk (history)
    chunkHandlers,      \* socket-server.ts: audio-chunk handlers started so far and where they are
    client,             \* recordings/new page: recorder state, pending callbacks, events on the socket
    nEvents,            \* number of client events handled so far
    received            \* per recordingId, the client events handled so far, in order

vars == <<activeRecordings, db, conn, pipes, pending, emitted, now,
          nextChunk, lastChunkAt, chunkHandlers, client, nEvents, received>>

\* ------------------------------------------------------------- helpers
Has(s) == s \in DOMAIN activeRecordings

MapDelete(m, s) == [k \in (DOMAIN m) \ {s} |-> m[k]]

MapSet(m, s, v) == [k \in (DOMAIN m) \cup {s} |-> IF k = s THEN v ELSE m[k]]

\* Text values stored in transcript / summary and carried by events.
NoText == [kind |-> "null", of |-> <<>>, msg |-> ""]
Text(k, b, m) == [kind |-> k, of |-> b, msg |-> m]

NoDuration == -1

\* socket.emit(kind, {recordingId: rid}) on the socket of the running handler
SocketEmit(e, rid, k) == [e EXCEPT ![rid][k].one = @ + 1]

\* variant that answers on one socket where the code broadcasts
IoEmitToSender(e, rid, k) == [e EXCEPT ![rid][k].one = @ + 1]

\* io.emit(kind, {recordingId: rid}): sent to every connected client
IoEmit(e, rid, k) == [e EXCEPT ![rid][k].all = @ + 1]

\* variant in which a handler waits until no run is in flight
HandleAfterRuns(rid, ev) ==
    /\ \A s \in Sessions : \A i \in DOMAIN pipes[s] : pipes[s][i].pc = "done"
    /\ nEvents < MaxEvents
    /\ nEvents' = nEvents + 1
    /\ received' = [received EXCEPT ![rid] = Append(@, ev)]

\* a client event ev for rid is taken off the transport and handled
Handle(rid, ev) ==
    /\ nEvents < MaxEvents
    /\ nEvents' = nEvents + 1
    /\ received' = [received EXCEPT ![rid] = Append(@, ev)]

\* total number of recording-error events emitted for rid
RECURSIVE SumErrors(_, _)
SumErrors(rid, ks) ==
    IF ks = {} THEN 0
    ELSE LET k == CHOOSE x \in ks : TRUE
         IN emitted[rid][k].one + emitted[rid][k].all + SumErrors(rid, ks \ {k})

ErrorCount(rid) == SumErrors(rid, ErrorKinds)

\* ---------------------------------------------------------------- Init
InitServer ==
    /\ activeRecordings = << >>
    /\ db = << >>
    /\ conn = [c \in Conns |-> "idle"]
    /\ pipes = [s \in Sessions |-> << >>]
    /\ pending = [s \in Sessions |-> [k \in {"PAUSED", "RECORDING"} |-> 0]]
    /\ emitted = [rid \in Sessions \cup {NoId} |->
                     [k \in Kinds |-> [one |-> 0, all |-> 0]]]
    /\ now = 0
    /\ nextChunk = [s \in Sessions |-> 0]
    /\ lastChunkAt = [s \in Sessions |-> -1]
    /\ chunkHandlers = {}
    /\ nEvents = 0
    /\ received = [rid \in Sessions \cup {NoId} |-> << >>]

\* the recording page as mounted: which build of the page, nothing recorded
ClientIdle(variant) ==
    [variant |-> variant, pc |-> "idle", rid |-> NoId, captured |-> 0,
     hadChunks |-> FALSE, sendChunk |-> 0, sendFinal |-> FALSE,
     timer |-> FALSE, wire |-> << >>]

Init == InitServer /\ client = ClientIdle("page.tsx")

\* io.on('connection')
Connect(c) ==
    /\ conn[c] = "idle"
    /\ conn' = [conn EXCEPT ![c] = "open"]
    /\ UNCHANGED <<activeRecordings, db, pipes, pending, emitted, now,
                   nextChunk, lastChunkAt, chunkHandlers, client, nEvents, received>>

\* POST /api/recordings: prisma.recording.create with status RECORDING
CreateRecording(s) ==
    /\ s \notin DOMAIN db
    /\ db' = MapSet(db, s, [status |-> "RECORDING", transcript |-> NoText,
                            summary |-> NoText, duration |-> NoDuration])
    /\ UNCHANGED <<activeRecordings, conn, pipes, pending, emitted, now,
                   nextChunk, lastChunkAt, chunkHandlers, client, nEvents, received>>

\* Date.now() advances
Tick ==
    /\ now < MaxTime
    /\ now' = now + 1
    /\ UNCHANGED <<activeRecordings, db, conn, pipes, pending, emitted,
                   nextChunk, lastChunkAt, chunkHandlers, client, nEvents, received>>

\* socket.on('audio-chunk') with recordingId and chunk present
NewEntry(c) == [socketId |-> c, startTime |-> now, chunks |-> << >>,
                isPaused |-> FALSE]

\* variant that registers the session and leaves the buffer as it was
PushChunkDrop(entry, blob) == entry

PushChunkFront(entry, blob) == [entry EXCEPT !.chunks = <<blob>> \o @]

PushChunk(entry, blob) == [entry EXCEPT !.chunks = Append(@, blob)]

\* variant in which the sender of a chunk takes the entry over
AudioChunkTakeOver(c, s, isFinal) ==
    /\ conn[c] = "open"
    /\ Handle(s, IF isFinal THEN EvFinalChunk ELSE EvChunk)
    /\ nextChunk' = [nextChunk EXCEPT ![s] = @ + 1]
    /\ lastChunkAt' = [lastChunkAt EXCEPT ![s] = now]
    /\ LET blob == nextChunk[s] + 1
           entry == IF Has(s) THEN [activeRecordings[s] EXCEPT !.socketId = c]
                    ELSE NewEntry(c)
           d1 == SocketEmit(emitted, s, "audio-chunk-received")
       IN /\ activeRecordings' = MapSet(activeRecordings, s, PushChunk(entry, blob))
          /\ emitted' = IF isFinal
                          THEN SocketEmit(d1, s, "status:PROCESSING")
                          ELSE d1
    /\ UNCHANGED <<db, conn, pipes, pending, now, chunkHandlers, client>>

AudioChunk(c, s, isFinal) ==
    /\ conn[c] = "open"
    /\ Handle(s, IF isFinal THEN EvFinalChunk ELSE EvChunk)
    /\ nextChunk' = [nextChunk EXCEPT ![s] = @ + 1]
    /\ lastChunkAt' = [lastChunkAt EXCEPT ![s] = now]
    /\ LET blob == nextChunk[s] + 1
           entry == IF Has(s) THEN activeRecordings[s] ELSE NewEntry(c)
           d1 == SocketEmit(emitted, s, "audio-chunk-received")
       IN /\ activeRecordings' = MapSet(activeRecordings, s, PushChunk(entry, blob))
          /\ emitted' = IF isFinal
                          THEN SocketEmit(d1, s, "status:PROCESSING")
                          ELSE d1
    /\ UNCHANGED <<db, conn, pipes, pending, now, chunkHandlers, client>>

\* socket.on('audio-chunk') with recordingId or chunk missing.  The debug line
\* reads data.chunk.byteLength before the validation, so a missing chunk
\* throws a TypeError; a missing recordingId with a chunk fails the validation.
\* Either way the catch block reports error.message to the sender.
InvalidChunkError(hasChunk) == IF hasChunk THEN ErrInvalidChunk ELSE ErrTypeError

\* variant that registers the session before it validates the event
InvalidChunkEnsure(c, rid, hasChunk) ==
    /\ conn[c] = "open"
    /\ rid = NoId \/ ~hasChunk
    /\ Handle(rid, EvInvalidChunk)
    /\ emitted' = SocketEmit(emitted, rid, InvalidChunkError(hasChunk))
    /\ activeRecordings' = IF rid \in Sessions /\ ~Has(rid)
                           THEN MapSet(activeRecordings, rid, NewEntry(c))
                           ELSE activeRecordings
    /\ UNCHANGED <<db, conn, pipes, pending, now, nextChunk, lastChunkAt, chunkHandlers, client>>

InvalidChunk(c, rid, hasChunk) ==
    /\ conn[c] = "open"
    /\ rid = NoId \/ ~hasChunk
    /\ Handle(rid, EvInvalidChunk)
    /\ emitted' = SocketEmit(emitted, rid, InvalidChunkError(hasChunk))
    /\ UNCHANGED <<activeRecordings, db, conn, pipes, pending, now, nextChunk, lastChunkAt, chunkHandlers, client>>

\* ------------------------------------------- processRecordingWithGemini
\* payload of the recording-completed event of a run (none sent yet)
NoResult == [transcript |-> NoText, summary |-> NoText, duration |-> NoDuration]

\* The synchronous prefix of a run, up to `await prisma.recording.findUnique`
\* (or, when there is nothing to process, up to the catch block's update):
\* the chunks are combined into one blob and the entry's startTime is kept.
EnterCatch(p, msg) == [p EXCEPT !.pc = "catchUpdate", !.err = msg]

PipeStart(m, s) ==
    LET p0 == [pc |-> "findUnique", blob |-> << >>, startTime |-> now,
               duration |-> NoDuration, transcript |-> NoText,
               summary |-> NoText, err |-> "", outcome |-> "none",
               result |-> NoResult]
    IN IF s \notin DOMAIN m \/ Len(m[s].chunks) = 0
       THEN EnterCatch(p0, ErrNoChunks)
       ELSE [p0 EXCEPT !.blob = m[s].chunks, !.startTime = m[s].startTime]

\* io.emit('recording-status', PROCESSING) once the chunks are combined
PipeStartEmit(e, p, s) ==
    IF p.pc = "findUnique" THEN IoEmit(e, s, "status:PROCESSING") ELSE e

Duration(p) == ((now - p.startTime) * TickMs) \div 1000

TranscribeAudio(blob) == Text("transcript", blob, "")

GenerateSummary(transcript) == Text("summary", transcript.of, "")

ErrorTranscript == Text("error-marker", << >>, "")

SetPipe(s, i, p) == [pipes EXCEPT ![s][i] = p]

\* variant that tracks an unknown session with a placeholder instead of
\* rejecting the signal
CompleteRecordingPlaceholder(c, s) ==
    /\ conn[c] = "open"
    /\ Handle(s, EvComplete)
    /\ IF ~Has(s)
       THEN /\ activeRecordings' = MapSet(activeRecordings, s, NewEntry(c))
            /\ emitted' = SocketEmit(emitted, s, "status:PROCESSING")
            /\ UNCHANGED pipes
       ELSE LET p == PipeStart(activeRecordings, s)
            IN /\ emitted' = PipeStartEmit(
                                 SocketEmit(emitted, s, "status:PROCESSING"), p, s)
               /\ pipes' = [pipes EXCEPT ![s] = Append(@, p)]
               /\ UNCHANGED activeRecordings
    /\ UNCHANGED <<db, conn, pending, now, nextChunk, lastChunkAt, chunkHandlers, client>>

\* socket.on('complete-recording')
CompleteRecording(c, s) ==
    /\ conn[c] = "open"
    /\ Handle(s, EvComplete)
    /\ IF ~Has(s)
       THEN /\ emitted' = SocketEmit(emitted, s, ErrNotFound)
            /\ UNCHANGED <<activeRecordings, pipes>>
       ELSE IF Len(activeRecordings[s].chunks) = 0
       THEN /\ emitted' = SocketEmit(emitted, s, ErrNoData)
            /\ activeRecordings' = MapDelete(activeRecordings, s)
            /\ UNCHANGED pipes
       ELSE LET p == PipeStart(activeRecordings, s)
            IN /\ emitted' = PipeStartEmit(
                                 SocketEmit(emitted, s, "status:PROCESSING"), p, s)
               /\ pipes' = [pipes EXCEPT ![s] = Append(@, p)]
               /\ UNCHANGED activeRecordings
    /\ UNCHANGED <<db, conn, pending, now, nextChunk, lastChunkAt, chunkHandlers, client>>

\* prisma.recording.findUnique returns (or throws when ~ok)
PipeFindUnique(s, i, ok) ==
    /\ i \in DOMAIN pipes[s]
    /\ pipes[s][i].pc = "findUnique"
    /\ LET p == pipes[s][i]
       IN pipes' = SetPipe(s, i,
            IF ~ok THEN EnterCatch(p, ErrDb)
            ELSE IF s \notin DOMAIN db
            THEN EnterCatch(p, ErrNoRow)
            ELSE [p EXCEPT !.pc = "transcribe", !.duration = Duration(p)])
    /\ UNCHANGED <<activeRecordings, db, conn, pending, emitted, now,
                   nextChunk, lastChunkAt, chunkHandlers, client, nEvents, received>>

\* variant that combines the session's chunks when it calls transcribeAudio
PipeTranscribeLate(s, i, ok) ==
    /\ i \in DOMAIN pipes[s]
    /\ pipes[s][i].pc = "transcribe"
    /\ LET p == pipes[s][i]
           blob == IF Has(s) THEN activeRecordings[s].chunks ELSE p.blob
       IN IF ok
          THEN /\ pipes' = SetPipe(s, i, [p EXCEPT !.pc = "summarize",
                                 !.transcript = TranscribeAudio(blob)])
               /\ emitted' = IoEmit(emitted, s, "transcription-update")
          ELSE /\ pipes' = SetPipe(s, i, EnterCatch(p, ErrTranscribe))
               /\ UNCHANGED emitted
    /\ UNCHANGED <<activeRecordings, db, conn, pending, now, nextChunk, lastChunkAt, chunkHandlers, client, nEvents, received>>

\* variant that carries on with the summary after a failed transcription
PipeTranscribeContinue(s, i, ok) ==
    /\ i \in DOMAIN pipes[s]
    /\ pipes[s][i].pc = "transcribe"
    /\ LET p == pipes[s][i]
       IN /\ pipes' = SetPipe(s, i,
                 IF ok THEN [p EXCEPT !.pc = "summarize",
                                      !.transcript = TranscribeAudio(p.blob)]
                 ELSE [p EXCEPT !.pc = "summarize", !.err = ErrTranscribe])
          /\ emitted' = IoEmit(emitted, s, "transcription-update")
    /\ UNCHANGED <<activeRecordings, db, conn, pending, now, nextChunk, lastChunkAt, chunkHandlers, client, nEvents, received>>

\* transcribeAudio returns (or throws when ~ok)
PipeTranscribe(s, i, ok) ==
    /\ i \in DOMAIN pipes[s]
    /\ pipes[s][i].pc = "transcribe"
    /\ LET p == pipes[s][i]
       IN IF ok
          THEN /\ pipes' = SetPipe(s, i, [p EXCEPT !.pc = "summarize",
                                 !.transcript = TranscribeAudio(p.blob)])
               /\ emitted' = IoEmit(emitted, s, "transcription-update")
          ELSE /\ pipes' = SetPipe(s, i, EnterCatch(p, ErrTranscribe))
               /\ UNCHANGED emitted
    /\ UNCHANGED <<activeRecordings, db, conn, pending, now, nextChunk, lastChunkAt, chunkHandlers, client, nEvents, received>>

\* generateSummary returns (or throws when ~ok)
PipeSummarize(s, i, ok) ==
    /\ i \in DOMAIN pipes[s]
    /\ pipes[s][i].pc = "summarize"
    /\ LET p == pipes[s][i]
       IN pipes' = SetPipe(s, i,
            IF ok THEN [p EXCEPT !.pc = "update",
                                 !.summary = GenerateSummary(p.transcript)]
            ELSE EnterCatch(p, ErrSummarize))
    /\ UNCHANGED <<activeRecordings, db, conn, pending, emitted, now,
                   nextChunk, lastChunkAt, chunkHandlers, client, nEvents, received>>

\* prisma.recording.update({transcript, summary, duration, status: COMPLETED})
\* returns (or throws when ~ok or the row is missing)
\* variant that leaves the duration column as it was created
CompletedRowNoDuration(p) == [status |-> "COMPLETED", transcript |-> p.transcript,
                              summary |-> p.summary, duration |-> NoDuration]

CompletedRow(p) == [status |-> "COMPLETED", transcript |-> p.transcript,
                    summary |-> p.summary, duration |-> p.duration]

\* io.emit('recording-completed', {recordingId, summary, transcript, duration})
CompletedEvent(p) == [transcript |-> p.transcript, summary |-> p.summary,
                      duration |-> p.duration]

PipeUpdate(s, i, ok) ==
    /\ i \in DOMAIN pipes[s]
    /\ pipes[s][i].pc = "update"
    /\ LET p == pipes[s][i]
       IN IF ok /\ s \in DOMAIN db
          THEN /\ db' = [db EXCEPT ![s] = CompletedRow(p)]
               /\ emitted' = IoEmit(emitted, s, "recording-completed")
               /\ activeRecordings' = MapDelete(activeRecordings, s)
               /\ pipes' = SetPipe(s, i, [p EXCEPT !.pc = "done",
                                                   !.outcome = "completed",
                                                   !.result = CompletedEvent(p)])
          ELSE /\ pipes' = SetPipe(s, i, EnterCatch(p, ErrDb))
               /\ UNCHANGED <<db, emitted, activeRecordings>>
    /\ UNCHANGED <<conn, pending, now, nextChunk, lastChunkAt, chunkHandlers, client, nEvents, received>>

\* catch block: best-effort prisma.recording.update with the error markers,
\* then recording-error to every client and removal of the registry entry
FailedRowProcessing(row, p) == [row EXCEPT !.status = "PROCESSING"]

FailedRow(row, p) == [row EXCEPT !.status = "COMPLETED",
                                 !.transcript = ErrorTranscript,
                                 !.summary = Text("processing-failed", << >>, p.err)]

PipeCatchUpdate(s, i, ok) ==
    /\ i \in DOMAIN pipes[s]
    /\ pipes[s][i].pc = "catchUpdate"
    /\ LET p == pipes[s][i]
       IN /\ db' = IF ok /\ s \in DOMAIN db
                   THEN [db EXCEPT ![s] = FailedRow(db[s], p)]
                   ELSE db
          /\ emitted' = IoEmit(emitted, s, p.err)
          /\ activeRecordings' = MapDelete(activeRecordings, s)
          /\ pipes' = SetPipe(s, i, [p EXCEPT !.pc = "done", !.outcome = "error"])
    /\ UNCHANGED <<conn, pending, now, nextChunk, lastChunkAt, chunkHandlers, client, nEvents, received>>

\* ------------------------------------------------------- pause / resume
\* variant that registers an unseen session when it is paused or resumed
SetPausedEnsure(m, s, b) ==
    [k \in (DOMAIN m) \cup {s} |->
        IF k \in DOMAIN m
        THEN [m[k] EXCEPT !.isPaused = IF k = s THEN b ELSE @]
        ELSE [socketId |-> "c1", startTime |-> now, chunks |-> << >>,
              isPaused |-> b]]

SetPaused(m, s, b) == IF s \in DOMAIN m THEN [m EXCEPT ![s].isPaused = b] ELSE m

\* socket.on('pause-recording'), up to `await prisma.recording.update`
PauseRecording(c, s) ==
    /\ conn[c] = "open"
    /\ Handle(s, EvPause)
    /\ activeRecordings' = SetPaused(activeRecordings, s, TRUE)
    /\ pending' = [pending EXCEPT ![s]["PAUSED"] = @ + 1]
    /\ UNCHANGED <<db, conn, pipes, emitted, now, nextChunk, lastChunkAt, chunkHandlers, client>>

\* socket.on('resume-recording'), up to `await prisma.recording.update`
ResumeRecording(c, s) ==
    /\ conn[c] = "open"
    /\ Handle(s, EvResume)
    /\ activeRecordings' = SetPaused(activeRecordings, s, FALSE)
    /\ pending' = [pending EXCEPT ![s]["RECORDING"] = @ + 1]
    /\ UNCHANGED <<db, conn, pipes, emitted, now, nextChunk, lastChunkAt, chunkHandlers, client>>

\* prisma.recording.update({status}) of a pause/resume handler returns; when
\* it throws (~ok, or no such row) the catch block only logs
StatusUpdateDone(s, kind, ok) ==
    /\ pending[s][kind] > 0
    /\ pending' = [pending EXCEPT ![s][kind] = @ - 1]
    /\ IF ok /\ s \in DOMAIN db
       THEN /\ db' = [db EXCEPT ![s].status = kind]
            /\ emitted' = SocketEmit(emitted, s,
                              IF kind = "PAUSED" THEN "status:PAUSED"
                                                 ELSE "status:RECORDING")
       ELSE UNCHANGED <<db, emitted>>
    /\ UNCHANGED <<activeRecordings, conn, pipes, now, nextChunk, lastChunkAt, chunkHandlers, client, nEvents, received>>

\* ------------------------------------------------- disconnect and sweep
RemoveAllEntries(m, c) == << >>

RemoveByConnection(m, c) ==
    [k \in {s \in DOMAIN m : m[s].socketId # c} |-> m[k]]

\* variant that also abandons the runs of the sessions the connection owns
DisconnectCancel(c) ==
    /\ conn[c] = "open"
    /\ conn' = [conn EXCEPT ![c] = "closed"]
    /\ activeRecordings' = RemoveByConnection(activeRecordings, c)
    /\ pipes' = [s \in Sessions |->
                   IF Has(s) /\ activeRecordings[s].socketId = c
                   THEN << >> ELSE pipes[s]]
    /\ UNCHANGED <<db, pending, emitted, now, nextChunk, lastChunkAt, chunkHandlers, client, nEvents, received>>

\* socket.on('disconnect')
Disconnect(c) ==
    /\ conn[c] = "open"
    /\ conn' = [conn EXCEPT ![c] = "closed"]
    /\ activeRecordings' = RemoveByConnection(activeRecordings, c)
    /\ UNCHANGED <<db, pipes, pending, emitted, now, nextChunk, lastChunkAt, chunkHandlers, client, nEvents, received>>

\* variant that also drops an entry that is exactly one hour old
StaleInclusive(entry) == entry.startTime * TickMs <= now * TickMs - OneHourMs

\* recording.startTime < oneHourAgo
Stale(entry) == entry.startTime * TickMs < now * TickMs - OneHourMs

SweepKeep(m) == [k \in {s \in DOMAIN m : ~Stale(m[s])} |-> m[k]]

\* setInterval(..., 60000): clean up recordings older than one hour
Sweep ==
    /\ activeRecordings' = SweepKeep(activeRecordings)
    /\ UNCHANGED <<db, conn, pipes, pending, emitted, now, nextChunk, lastChunkAt, chunkHandlers, client, nEvents, received>>

Next ==
    \/ \E c \in Conns : Connect(c)
    \/ \E s \in Sessions : CreateRecording(s)
    \/ Tick
    \/ \E c \in Conns, s \in Sessions, f \in BOOLEAN : AudioChunk(c, s, f)
    \/ \E c \in Conns, rid \in Sessions \cup {NoId}, hasChunk \in BOOLEAN :
          InvalidChunk(c, rid, hasChunk)
    \/ \E c \in Conns, s \in Sessions : CompleteRecording(c, s)
    \/ \E s \in Sessions, i \in 1..MaxEvents, ok \in BOOLEAN : PipeFindUnique(s, i, ok)
    \/ \E s \in Sessions, i \in 1..MaxEvents, ok \in BOOLEAN : PipeTranscribe(s, i, ok)
    \/ \E s \in Sessions, i \in 1..MaxEvents, ok \in BOOLEAN : PipeSummarize(s, i, ok)
    \/ \E s \in Sessions, i \in 1..MaxEvents, ok \in BOOLEAN : PipeUpdate(s, i, ok)
    \/ \E s \in Sessions, i \in 1..MaxEvents, ok \in BOOLEAN : PipeCatchUpdate(s, i, ok)
    \/ \E c \in Conns, s \in Sessions : PauseRecording(c, s)
    \/ \E c \in Conns, s \in Sessions : ResumeRecording(c, s)
    \/ \E s \in Sessions, k \in {"PAUSED", "RECORDING"}, ok \in BOOLEAN :
          StatusUpdateDone(s, k, ok)
    \/ \E c \in Conns : Disconnect(c)
    \/ Sweep

Spec == Init /\ [][Next]_vars

\* every awaited call of a run (prisma, transcribeAudio, generateSummary) and
\* of a pause/resume handler (prisma) eventually returns or throws
AwaitReturns ==
    /\ WF_vars(\E s \in Sessions, i \in 1..MaxEvents, ok \in BOOLEAN : PipeFindUnique(s, i, ok))
    /\ WF_vars(\E s \in Sessions, i \in 1..MaxEvents, ok \in BOOLEAN : PipeTranscribe(s, i, ok))
    /\ WF_vars(\E s \in Sessions, i \in 1..MaxEvents, ok \in BOOLEAN : PipeSummarize(s, i, ok))
    /\ WF_vars(\E s \in Sessions, i \in 1..MaxEvents, ok \in BOOLEAN : PipeUpdate(s, i, ok))
    /\ WF_vars(\E s \in Sessions, i \in 1..MaxEvents, ok \in BOOLEAN : PipeCatchUpdate(s, i, ok))
    /\ WF_vars(\E s \in Sessions, k \in {"PAUSED", "RECORDING"}, ok \in BOOLEAN :
                  StatusUpdateDone(s, k, ok))

FairSpec == Spec /\ AwaitReturns

\* ------------------------------------------------------------------------
\* The per-chunk variant (src/lib/socket-server.ts): every audio-chunk is
\* transcribed on arrival, and a final chunk appends its transcription to the
\* transcript of the Recording row by read (findUnique), then write (update).
\* ------------------------------------------------------------------------
\* recording.transcript ? recording.transcript + '\n' + transcription : transcription
UpdatedTranscript(transcript, transcription) ==
    IF transcript = NoText THEN transcription
    ELSE Text("transcript", transcript.of \o transcription.of, "")

SetHandler(h, g) == (chunkHandlers \ {h}) \cup {g}

\* the handler of the n-th audio-chunk of s, once that event has arrived
Started(s, n) == \E h \in chunkHandlers : h.rid = s /\ h.chunk = n

HandlerOf(s, n) == CHOOSE h \in chunkHandlers : h.rid = s /\ h.chunk = n

\* socket.on('audio-chunk'), up to `await transcribeAudio(audioBlob)`
PerChunkAudioChunk(c, s, isFinal) ==
    /\ conn[c] = "open"
    /\ Handle(s, IF isFinal THEN EvFinalChunk ELSE EvChunk)
    /\ nextChunk' = [nextChunk EXCEPT ![s] = @ + 1]
    /\ chunkHandlers' = chunkHandlers \cup
          {[rid |-> s, chunk |-> nextChunk[s] + 1, isFinal |-> isFinal,
            pc |-> "transcribe", transcription |-> NoText,
            updatedTranscript |-> NoText, outcome |-> "none"]}
    /\ UNCHANGED <<activeRecordings, db, conn, pipes, pending, emitted, now, lastChunkAt, client>>

\* catch block: socket.emit('transcription-error')
PerChunkFail(h) == [h EXCEPT !.pc = "done", !.outcome = "error"]

\* transcribeAudio returns (or throws when ~ok)
PerChunkTranscribeStep(h, ok) ==
    /\ h.pc = "transcribe"
    /\ IF ok
       THEN /\ emitted' = SocketEmit(emitted, h.rid, "transcription-update")
            /\ chunkHandlers' = SetHandler(h,
                  IF h.isFinal
                  THEN [h EXCEPT !.pc = "findUnique",
                                 !.transcription = TranscribeAudio(<<h.chunk>>)]
                  ELSE [h EXCEPT !.pc = "done", !.outcome = "transcribed",
                                 !.transcription = TranscribeAudio(<<h.chunk>>)])
       ELSE /\ emitted' = SocketEmit(emitted, h.rid, "transcription-error")
            /\ chunkHandlers' = SetHandler(h, PerChunkFail(h))
    /\ UNCHANGED <<activeRecordings, db, conn, pipes, pending, now, nextChunk,
                   lastChunkAt, client, nEvents, received>>

PerChunkTranscribe(s, n, ok) ==
    /\ Started(s, n)
    /\ PerChunkTranscribeStep(HandlerOf(s, n), ok)

\* prisma.recording.findUnique returns (or throws when ~ok); the new
\* transcript is computed from the row just read
PerChunkFindUniqueStep(h, ok) ==
    /\ h.pc = "findUnique"
    /\ IF ~ok
       THEN /\ emitted' = SocketEmit(emitted, h.rid, "transcription-error")
            /\ chunkHandlers' = SetHandler(h, PerChunkFail(h))
       ELSE /\ UNCHANGED emitted
            /\ chunkHandlers' = SetHandler(h,
                  IF h.rid \in DOMAIN db
                  THEN [h EXCEPT !.pc = "update",
                                 !.updatedTranscript =
                                    UpdatedTranscript(db[h.rid].transcript, h.transcription)]
                  ELSE [h EXCEPT !.pc = "done", !.outcome = "no-row"])
    /\ UNCHANGED <<activeRecordings, db, conn, pipes, pending, now, nextChunk,
                   lastChunkAt, client, nEvents, received>>

PerChunkFindUnique(s, n, ok) ==
    /\ Started(s, n)
    /\ PerChunkFindUniqueStep(HandlerOf(s, n), ok)

\* prisma.recording.update({transcript: updatedTranscript, status: PROCESSING})
\* returns (or throws when ~ok)
PerChunkUpdateStep(h, ok) ==
    /\ h.pc = "update"
    /\ IF ok /\ h.rid \in DOMAIN db
       THEN /\ db' = [db EXCEPT ![h.rid].transcript = h.updatedTranscript,
                                ![h.rid].status = "PROCESSING"]
            /\ chunkHandlers' = SetHandler(h, [h EXCEPT !.pc = "done", !.outcome = "written"])
            /\ UNCHANGED emitted
       ELSE /\ emitted' = SocketEmit(emitted, h.rid, "transcription-error")
            /\ chunkHandlers' = SetHandler(h, PerChunkFail(h))
            /\ UNCHANGED db
    /\ UNCHANGED <<activeRecordings, conn, pipes, pending, now, nextChunk,
                   lastChunkAt, client, nEvents, received>>

PerChunkUpdate(s, n, ok) ==
    /\ Started(s, n)
    /\ PerChunkUpdateStep(HandlerOf(s, n), ok)

PerChunkNext ==
    \/ \E c \in Conns : Connect(c)
    \/ \E s \in Sessions : CreateRecording(s)
    \/ \E c \in Conns, s \in Sessions, f \in BOOLEAN : PerChunkAudioChunk(c, s, f)
    \/ \E s \in Sessions, n \in 1..MaxEvents, ok \in BOOLEAN : PerChunkTranscribe(s, n, ok)
    \/ \E s \in Sessions, n \in 1..MaxEvents, ok \in BOOLEAN : PerChunkFindUnique(s, n, ok)
    \/ \E s \in Sessions, n \in 1..MaxEvents, ok \in BOOLEAN : PerChunkUpdate(s, n, ok)

PerChunkSpec == Init /\ [][PerChunkNext]_vars

\* ------------------------------------------------------------------------
\* The recording page of the client (app/recordings/new/page.tsx and the
\* later build of the same page, src/unnamed/part_000): MediaRecorder
\* callbacks, the promises and timers they leave pending, and the events
\* they put on the socket, which the server handles in the order sent.
\* ------------------------------------------------------------------------
Variants == {"page.tsx", "part_000"}

\* emit(event, {recordingId}) on the connected socket
ClientEmit(cl, ev) == [cl EXCEPT !.wire = Append(@, ev)]

\* startRecording: createRecording, new MediaRecorder, mediaRecorder.start(1000)
ClientStart(s) ==
    /\ client.pc = "idle"
    /\ s \notin DOMAIN db
    /\ db' = MapSet(db, s, [status |-> "RECORDING", transcript |-> NoText,
                            summary |-> NoText, duration |-> NoDuration])
    /\ client' = [client EXCEPT !.pc = "recording", !.rid = s]
    /\ UNCHANGED <<activeRecordings, conn, pipes, pending, emitted, now, nextChunk,
                   lastChunkAt, chunkHandlers, nEvents, received>>

\* mediaRecorder.ondataavailable with data: the chunk is kept and
\* event.data.arrayBuffer() is left pending.  The recorder fires it every
\* second while recording and once more when it is stopped.
ClientDataAvailable ==
    /\ client.pc \in {"recording", "stopping"}
    /\ client.captured + 2 < MaxEvents
    /\ client' = [client EXCEPT !.captured = @ + 1, !.sendChunk = @ + 1,
                                !.pc = IF @ = "stopping" THEN "flushed" ELSE @]
    /\ UNCHANGED <<activeRecordings, db, conn, pipes, pending, emitted, now, nextChunk,
                   lastChunkAt, chunkHandlers, nEvents, received>>

\* event.data.arrayBuffer().then: emit('audio-chunk', {isFinal: false})
ClientSendChunk ==
    /\ client.sendChunk > 0
    /\ client' = ClientEmit([client EXCEPT !.sendChunk = @ - 1], EvChunk)
    /\ UNCHANGED <<activeRecordings, db, conn, pipes, pending, emitted, now, nextChunk,
                   lastChunkAt, chunkHandlers, nEvents, received>>

\* stopRecording: mediaRecorder.stop()
ClientStop ==
    /\ client.pc = "recording"
    /\ client' = [client EXCEPT !.pc = "stopping"]
    /\ UNCHANGED <<activeRecordings, db, conn, pipes, pending, emitted, now, nextChunk,
                   lastChunkAt, chunkHandlers, nEvents, received>>

\* mediaRecorder.onstop.  With chunks collected both builds leave
\* finalBlob.arrayBuffer() pending; page.tsx then emits complete-recording at
\* once, part_000 leaves that to the promise's callback.  Without chunks
\* page.tsx and part_000 both emit complete-recording at once.
ClientOnStopEmit(cl) ==
    IF cl.variant = "page.tsx" \/ cl.captured = 0
    THEN ClientEmit(cl, EvComplete)
    ELSE cl

ClientOnStop ==
    /\ client.pc \in {"stopping", "flushed"}
    /\ client' = [ClientOnStopEmit(client) EXCEPT
                     !.pc = "stopped",
                     !.hadChunks = client.captured > 0,
                     !.sendFinal = client.captured > 0,
                     !.captured = 0]
    /\ UNCHANGED <<activeRecordings, db, conn, pipes, pending, emitted, now, nextChunk,
                   lastChunkAt, chunkHandlers, nEvents, received>>

\* finalBlob.arrayBuffer().then: emit('audio-chunk', {isFinal: true}); part_000
\* then starts setTimeout(..., 500) for complete-recording
ClientSendFinal ==
    /\ client.sendFinal
    /\ client' = ClientEmit([client EXCEPT !.sendFinal = FALSE,
                                           !.timer = (client.variant = "part_000")],
                            EvFinalChunk)
    /\ UNCHANGED <<activeRecordings, db, conn, pipes, pending, emitted, now, nextChunk,
                   lastChunkAt, chunkHandlers, nEvents, received>>

\* the 500 ms timer of part_000 fires: emit('complete-recording')
ClientTimer ==
    /\ client.timer
    /\ client' = ClientEmit([client EXCEPT !.timer = FALSE], EvComplete)
    /\ UNCHANGED <<activeRecordings, db, conn, pipes, pending, emitted, now, nextChunk,
                   lastChunkAt, chunkHandlers, nEvents, received>>

\* the server takes the next event off the socket and runs its handler
ClientDeliver ==
    /\ client.wire # << >>
    /\ Handle(client.rid, Head(client.wire))
    /\ client' = [client EXCEPT !.wire = Tail(@)]
    /\ UNCHANGED <<activeRecordings, db, conn, pipes, pending, emitted, now, nextChunk,
                   lastChunkAt, chunkHandlers>>

ClientInit == InitServer /\ \E v \in Variants : client = ClientIdle(v)

ClientNext ==
    \/ \E s \in Sessions : ClientStart(s)
    \/ ClientDataAvailable
    \/ ClientSendChunk
    \/ ClientStop
    \/ ClientOnStop
    \/ ClientSendFinal
    \/ ClientTimer
    \/ ClientDeliver

ClientSpec == ClientInit /\ [][ClientNext]_vars

\* ======================================================================
\* Properties
\* ======================================================================
IsChunkEv(e) == e \in {EvChunk, EvFinalChunk}

\* log is one or more audio-chunk events followed by exactly the events of tail
ChunksThen(log, tail) ==
    /\ Len(log) > Len(tail)
    /\ \A i \in 1..(Len(log) - Len(tail)) : IsChunkEv(log[i])
    /\ \A j \in 1..Len(tail) : log[Len(log) - Len(tail) + j] = tail[j]

OnlyChunks(log) == Len(log) > 0 /\ \A i \in 1..Len(log) : IsChunkEv(log[i])

InFlight(s) == \E i \in 1..Len(pipes[s]) : pipes[s][i].pc # "done"

\* no disconnect has happened and no entry can have been swept
NoRemoval == now = 0 /\ \A c \in Conns : conn[c] # "closed"

StatusCount(s, k) == emitted[s][k].one + emitted[s][k].all

Idle(s) == pending[s]["PAUSED"] = 0 /\ pending[s]["RECORDING"] = 0

\* C1: two complete-recording events for S handled in immediate succession
\* start processRecordingWithGemini at most once for S.
C1_CompleteOnce ==
    \A s \in Sessions :
        ChunksThen(received[s], <<EvComplete, EvComplete>>) => Len(pipes[s]) <= 1

C3_OneProcessingOneCompleted ==
    \A s \in Sessions :
        ( /\ ChunksThen(received[s], <<EvComplete>>)
          /\ received[s][Len(received[s]) - 1] = EvFinalChunk
          /\ Len(pipes[s]) = 1
          /\ pipes[s][1].outcome = "completed" )
        => /\ StatusCount(s, "status:PROCESSING") = 1
           /\ StatusCount(s, "recording-completed") = 1
           /\ ~Has(s)

\* a run of S leaves its catch block after transcribeAudio threw
TranscribeFailureEnds(s, i) ==
    /\ i <= Len(pipes[s])
    /\ pipes[s][i].pc = "catchUpdate"
    /\ pipes[s][i].err = ErrTranscribe
    /\ pipes'[s][i].pc = "done"

FailedRuns(s, msg) ==
    {i \in 1..Len(pipes[s]) : pipes[s][i].outcome = "error" /\ pipes[s][i].err = msg}

\* C4 (as claimed): when transcribe throws in the pipeline of S, exactly one
\* recording-error is emitted, the durable record is moved to a terminal
\* status and the registry entry of S is removed.
C4_TerminalStatus ==
    [][\A s \in Sessions : \A i \in 1..Len(pipes[s]) :
         TranscribeFailureEnds(s, i) =>
            /\ ErrorCount(s)' = ErrorCount(s) + 1
            /\ db'[s].status \in {"COMPLETED", "FAILED"}
            /\ s \notin DOMAIN activeRecordings']_vars

\* C4 (amended): when transcribe throws in the pipeline of S, exactly one
\* recording-error is emitted by that run and the registry entry of S is
\* removed; the durable record is set to COMPLETED by the best-effort update,
\* or left untouched when that update itself fails.
C4_BestEffortTerminal ==
    /\ [](\A s \in Sessions :
            emitted[s][ErrTranscribe].all = Cardinality(FailedRuns(s, ErrTranscribe)))
    /\ [][\A s \in Sessions : \A i \in 1..Len(pipes[s]) :
            TranscribeFailureEnds(s, i) =>
               /\ ErrorCount(s)' = ErrorCount(s) + 1
               /\ db'[s].status = "COMPLETED" \/ db' = db
               /\ s \notin DOMAIN activeRecordings']_vars

C4_Witness ==
    /\ Len(pipes["s1"]) = 1
    /\ pipes["s1"][1].outcome = "error"
    /\ pipes["s1"][1].err = ErrTranscribe
    /\ emitted["s1"][ErrTranscribe].all = 1
    /\ ErrorCount("s1") = 1
    /\ "s1" \in DOMAIN db
    /\ db["s1"].status = "COMPLETED"
    /\ db["s1"].transcript = ErrorTranscript
    /\ ~Has("s1")

\* C5: once the durable status of a recording is COMPLETED or FAILED, no later
\* event changes it.
C5_TerminalStable ==
    [][\A s \in DOMAIN db :
         db[s].status \in {"COMPLETED", "FAILED"} => db'[s].status = db[s].status]_vars

\* C6: complete-recording for a session that is absent from the registry or
\* has no buffered chunk emits one recording-error to the sender, starts no
\* pipeline and writes nothing; a COMPLETED row always comes from a pipeline
\* run over a non-empty buffer.
C6_CompleteOnMissing ==
    /\ [](\A s \in Sessions :
            /\ \A i \in 1..Len(pipes[s]) : pipes[s][i].blob # << >>
            /\ (s \in DOMAIN db /\ db[s].status = "COMPLETED") => Len(pipes[s]) > 0)
    /\ [][\A s \in Sessions :
            ( /\ received'[s] = Append(received[s], EvComplete)
              /\ ~Has(s) \/ Len(activeRecordings[s].chunks) = 0 )
            => /\ emitted' = SocketEmit(emitted, s,
                                 IF ~Has(s) THEN ErrNotFound ELSE ErrNoData)
               /\ pipes' = pipes
               /\ db' = db
               /\ pending' = pending
               /\ s \notin DOMAIN activeRecordings']_vars

C6_Witness ==
    /\ received["s1"] = <<EvComplete>>
    /\ emitted["s1"][ErrNotFound].one = 1
    /\ ErrorCount("s1") = 1
    /\ pipes["s1"] = << >>
    /\ "s1" \in DOMAIN db
    /\ db["s1"].status = "RECORDING"

\* C7: after pause-recording followed by resume-recording on an active
\* session, both handlers having completed their status update, the durable
\* status is RECORDING and the registry isPaused flag is false.
C7_ResumeRestores ==
    \A s \in Sessions :
        ( /\ ChunksThen(received[s], <<EvPause, EvResume>>)
          /\ Idle(s)
          /\ emitted[s]["status:PAUSED"].one = 1
          /\ emitted[s]["status:RECORDING"].one = 1
          /\ Has(s)
          /\ s \in DOMAIN db )
        => /\ db[s].status = "RECORDING"
           /\ ~activeRecordings[s].isPaused

\* C8: a disconnect of connection C removes exactly the registry entries
\* owned by C, leaves the others as they are and writes no durable record.
C8_DisconnectFrame ==
    [][\A c \in Conns :
         (conn[c] = "open" /\ conn'[c] = "closed") =>
            /\ DOMAIN activeRecordings' =
                  {s \in DOMAIN activeRecordings : activeRecordings[s].socketId # c}
            /\ \A s \in DOMAIN activeRecordings' :
                  activeRecordings'[s] = activeRecordings[s]
            /\ db' = db
            /\ pending' = pending
            /\ pipes' = pipes]_vars

C8_Witness ==
    /\ conn["c1"] = "closed"
    /\ conn["c2"] = "open"
    /\ now = 0
    /\ OnlyChunks(received["s1"])
    /\ ~Has("s1")
    /\ Has("s2")
    /\ activeRecordings["s2"].socketId = "c2"
    /\ "s1" \in DOMAIN db
    /\ db["s1"].status = "RECORDING"

\* C9: an audio-chunk for a session whose pipeline is running or whose
\* durable status is PROCESSING or COMPLETED leaves the registry unchanged.
C9_ChunkIgnoredWhileProcessing ==
    [][\A s \in Sessions :
         ( /\ nextChunk'[s] # nextChunk[s]
           /\ \/ InFlight(s)
              \/ s \in DOMAIN db /\ db[s].status \in {"PROCESSING", "COMPLETED"} )
         => activeRecordings' = activeRecordings]_vars

\* C10: pause-recording and resume-recording for a session that is not in the
\* registry change neither the registry nor the durable record and emit no
\* recording-error.
C10_PauseUnknownIgnored ==
    \A s \in Sessions :
        ( /\ Len(received[s]) > 0
          /\ \A i \in 1..Len(received[s]) : received[s][i] \in {EvPause, EvResume} )
        => /\ ~Has(s)
           /\ s \in DOMAIN db => db[s].status = "RECORDING"
           /\ ErrorCount(s) = 0

\* number of events of log that belong to evs
RECURSIVE CountEv(_, _)
CountEv(log, evs) ==
    IF log = << >> THEN 0
    ELSE (IF Head(log) \in evs THEN 1 ELSE 0) + CountEv(Tail(log), evs)

RunsWith(s, outcome) ==
    {i \in 1..Len(pipes[s]) : pipes[s][i].pc = "done" /\ pipes[s][i].outcome = outcome}

\* pause/resume handlers of s whose prisma.recording.update has thrown
FailedStatusUpdates(s) ==
    CountEv(received[s], {EvPause, EvResume})
    - (pending[s]["PAUSED"] + pending[s]["RECORDING"])
    - (emitted[s]["status:PAUSED"].one + emitted[s]["status:RECORDING"].one)

\* complete-recording events of s rejected before any run was started
RejectedCompletes(s) == CountEv(received[s], {EvComplete}) - Len(pipes[s])

\* C11: every failure path of a session (invalid chunk, complete on an
\* unknown or empty session, a failed pipeline run, a failed status update of
\* pause/resume) has produced exactly one recording-error for that session.
C11_OneErrorPerFailure ==
    \A s \in Sessions :
        ErrorCount(s) = CountEv(received[s], {EvInvalidChunk})
                        + RejectedCompletes(s)
                        + Cardinality(RunsWith(s, "error"))
                        + FailedStatusUpdates(s)

\* finished runs of s in which transcribeAudio and generateSummary both returned
SucceededAiRuns(s) ==
    {i \in 1..Len(pipes[s]) :
        /\ pipes[s][i].pc = "done"
        /\ pipes[s][i].transcript # NoText
        /\ pipes[s][i].summary # NoText}

\* C12: a run in which transcribe and summarize both succeeded emits
\* recording-completed (with the in-memory transcript and summary) even when
\* its final prisma.recording.update failed.
C12_CompletedDespiteWriteFailure ==
    \A s \in Sessions :
        emitted[s]["recording-completed"].all = Cardinality(SucceededAiRuns(s))

\* the reasons written out as literals in server.ts; every other error string
\* is the message of an exception thrown by the runtime, prisma or Gemini
FixedReasons == {ErrInvalidChunk, ErrNotFound, ErrNoData, ErrNoChunks, ErrNoRow}

\* C13: the error string of every recording-error event and the error marker
\* persisted into the summary of a failed recording belong to the fixed set of
\* reasons; the message of a thrown exception is never forwarded verbatim.
C13_SanitizedErrors ==
    /\ \A rid \in Sessions \cup {NoId} : \A k \in ErrorKinds :
          emitted[rid][k].one + emitted[rid][k].all > 0 => k \in FixedReasons
    /\ \A s \in DOMAIN db :
          db[s].summary.kind = "processing-failed" => db[s].summary.msg \in FixedReasons

\* C14: the registry entry of S is created exactly by an audio-chunk for an
\* unseen S, with the sender as owner, isPaused false and the chunk as its
\* only buffered chunk; no other event (complete, pause, resume, invalid
\* chunk) creates an entry.
C14_CreatedByFirstChunk ==
    /\ [](\A s \in DOMAIN activeRecordings : CountEv(received[s], {EvChunk, EvFinalChunk}) > 0)
    /\ [][\A s \in Sessions :
            /\ (~Has(s) /\ s \in DOMAIN activeRecordings') =>
                  /\ nextChunk'[s] = nextChunk[s] + 1
                  /\ IsChunkEv(received'[s][Len(received'[s])])
                  /\ \E c \in Conns, f \in BOOLEAN :
                        /\ AudioChunk(c, s, f)
                        /\ activeRecordings'[s] =
                              [socketId |-> c, startTime |-> now,
                               chunks |-> <<nextChunk'[s]>>, isPaused |-> FALSE]
            /\ (~Has(s) /\ nextChunk'[s] # nextChunk[s]) => s \in DOMAIN activeRecordings'
            /\ (~Has(s) /\ nextChunk'[s] = nextChunk[s]) => s \notin DOMAIN activeRecordings']_vars

C14_Witness ==
    /\ received["s1"] = <<EvChunk>>
    /\ Has("s1")
    /\ activeRecordings["s1"] = [socketId |-> "c2", startTime |-> 0,
                                 chunks |-> <<1>>, isPaused |-> FALSE]
    /\ received["s2"] = <<EvPause, EvComplete>>
    /\ ~Has("s2")

\* position of a run in processRecordingWithGemini, in program order
PcRank(pc) ==
    CASE pc = "findUnique" -> 0
      [] pc = "transcribe" -> 1
      [] pc = "summarize" -> 2
      [] pc = "update" -> 3
      [] pc = "catchUpdate" -> 4
      [] pc = "done" -> 5

\* runs of s whose transcribeAudio call has returned a transcript
TranscribedRuns(s) == {i \in 1..Len(pipes[s]) : pipes[s][i].transcript # NoText}

\* C15: a run whose transcribeAudio call threw never calls generateSummary,
\* emits neither transcription-update nor recording-completed and never writes
\* its transcript; a run only moves forward, so transcribeAudio and
\* generateSummary are each awaited at most once per run.
C15_AbortAfterTranscribeFailure ==
    /\ [](\A s \in Sessions :
            /\ \A i \in 1..Len(pipes[s]) :
                  pipes[s][i].err = ErrTranscribe =>
                     /\ pipes[s][i].pc \in {"catchUpdate", "done"}
                     /\ pipes[s][i].transcript = NoText
                     /\ pipes[s][i].summary = NoText
                     /\ pipes[s][i].outcome # "completed"
            /\ emitted[s]["transcription-update"].all = Cardinality(TranscribedRuns(s))
            /\ emitted[s]["recording-completed"].all = Cardinality(RunsWith(s, "completed"))
            /\ emitted[s]["transcription-update"].one = 0
            /\ emitted[s]["recording-completed"].one = 0
            /\ (s \in DOMAIN db /\ db[s].transcript.kind = "transcript") =>
                  \E i \in RunsWith(s, "completed") : db[s].transcript = pipes[s][i].transcript)
    /\ [][\A s \in Sessions : \A i \in 1..Len(pipes[s]) :
            /\ pipes'[s][i] # pipes[s][i] =>
                  PcRank(pipes'[s][i].pc) > PcRank(pipes[s][i].pc)
            /\ (pipes[s][i].pc = "transcribe" /\ pipes'[s][i].err = ErrTranscribe) =>
                  /\ emitted' = emitted
                  /\ db' = db]_vars

C15_Witness ==
    /\ Len(pipes["s1"]) = 1
    /\ pipes["s1"][1].pc = "done"
    /\ pipes["s1"][1].err = ErrTranscribe
    /\ emitted["s1"]["transcription-update"].all = 0
    /\ emitted["s1"]["recording-completed"].all = 0
    /\ emitted["s1"][ErrTranscribe].all = 1
    /\ "s1" \in DOMAIN db
    /\ db["s1"].transcript = ErrorTranscript
    /\ db["s1"].summary = Text("processing-failed", << >>, ErrTranscribe)

\* a run of session a is suspended at `await transcribeAudio` or
\* `await generateSummary`
Suspended(a) ==
    \E i \in 1..Len(pipes[a]) : pipes[a][i].pc \in {"transcribe", "summarize"}

\* C16: while a run of session A awaits transcribeAudio or generateSummary,
\* the audio-chunk, complete, pause, resume and disconnect handlers of the
\* other sessions and connections can run, and an audio-chunk handled then is
\* buffered in its session's entry without touching A's run.
C16_OthersNotBlocked ==
    /\ [](\A a \in Sessions : \A s \in Sessions \ {a} : \A c \in Conns :
            (Suspended(a) /\ conn[c] = "open") =>
               /\ ENABLED Disconnect(c)
               /\ nEvents < MaxEvents =>
                     /\ ENABLED AudioChunk(c, s, FALSE)
                     /\ ENABLED CompleteRecording(c, s)
                     /\ ENABLED PauseRecording(c, s)
                     /\ ENABLED ResumeRecording(c, s))
    /\ [][\A a \in Sessions : \A s \in Sessions \ {a} :
            (Suspended(a) /\ nextChunk'[s] # nextChunk[s]) =>
               /\ s \in DOMAIN activeRecordings'
               /\ LET ch == activeRecordings'[s].chunks
                  IN ch[Len(ch)] = nextChunk'[s]
               /\ pipes' = pipes
               /\ a \in DOMAIN activeRecordings =>
                     (a \in DOMAIN activeRecordings'
                      /\ activeRecordings'[a] = activeRecordings[a])]_vars

C16_Witness ==
    /\ Len(pipes["s1"]) = 1
    /\ pipes["s1"][1].pc = "transcribe"
    /\ pipes["s1"][1].duration = 0
    /\ Has("s2")
    /\ activeRecordings["s2"].startTime = 1
    /\ activeRecordings["s2"].chunks = <<1>>

\* the step a run of s at position pc takes next can be taken
NextStepEnabled(s, i) ==
    LET pc == pipes[s][i].pc
    IN \A ok \in BOOLEAN :
          /\ pc = "findUnique" => ENABLED PipeFindUnique(s, i, ok)
          /\ pc = "transcribe" => ENABLED PipeTranscribe(s, i, ok)
          /\ pc = "summarize" => ENABLED PipeSummarize(s, i, ok)
          /\ pc = "update" => ENABLED PipeUpdate(s, i, ok)
          /\ pc = "catchUpdate" => ENABLED PipeCatchUpdate(s, i, ok)

\* C17: a disconnect leaves every run as it is, and a run in flight can always
\* take its next step whatever the state of the connections and the registry;
\* when its final update succeeds it writes the transcript and summary of the
\* chunks it combined at its start, its duration and status COMPLETED.
C17_DisconnectKeepsPipeline ==
    /\ [](\A s \in Sessions : \A i \in 1..Len(pipes[s]) : NextStepEnabled(s, i))
    /\ [][\A c \in Conns :
            (conn[c] = "open" /\ conn'[c] = "closed") => pipes' = pipes]_vars
    /\ [][\A s \in Sessions : \A i \in 1..Len(pipes[s]) :
            (pipes[s][i].pc = "update" /\ pipes'[s][i].pc = "done") =>
               /\ db'[s].status = "COMPLETED"
               /\ db'[s].transcript = TranscribeAudio(pipes[s][i].blob)
               /\ db'[s].summary = GenerateSummary(TranscribeAudio(pipes[s][i].blob))
               /\ db'[s].duration = pipes[s][i].duration
               /\ pipes[s][i].blob # << >>]_vars

\* the only connection that was ever open has gone, the entry went with it
\* (nothing is stale at time 0 and no run has ended), and the run has got as
\* far as its final update
C17_Witness ==
    /\ conn["c1"] = "closed"
    /\ conn["c2"] = "idle"
    /\ now = 0
    /\ ~Has("s1")
    /\ Len(pipes["s1"]) = 1
    /\ pipes["s1"][1].pc = "update"
    /\ pipes["s1"][1].summary = GenerateSummary(TranscribeAudio(<<1, 2>>))

\* no audio-chunk of s has been accepted during the last hour
IdleForThreshold(s) == lastChunkAt[s] * TickMs <= now * TickMs - OneHourMs

\* C18: the periodic sweep removes a registry entry only when its session has
\* received no chunk for at least the staleness threshold.
C18_SweepOnlyIdle ==
    [][Sweep => \A s \in (DOMAIN activeRecordings) \ (DOMAIN activeRecordings') :
                    IdleForThreshold(s)]_vars

\* C19: one run of the periodic sweep removes exactly the entries whose
\* startTime is more than one hour before Date.now() and leaves every other
\* entry (chunks, owner, pause flag, startTime) and everything else unchanged.
C19_SweepFrame ==
    [][Sweep =>
         /\ DOMAIN activeRecordings' =
               {s \in DOMAIN activeRecordings :
                   (now - activeRecordings[s].startTime) * TickMs <= OneHourMs}
         /\ \A s \in DOMAIN activeRecordings' : activeRecordings'[s] = activeRecordings[s]
         /\ UNCHANGED <<db, conn, pipes, pending, emitted, now>>]_vars

\* s1 can only have been removed by the sweep (no disconnect, no run), and s2,
\* exactly one hour old, has been kept
C19_Witness ==
    /\ received["s1"] = <<EvChunk>>
    /\ received["s2"] = <<EvChunk, EvPause>>
    /\ \A c \in Conns : conn[c] # "closed"
    /\ ~Has("s1")
    /\ Has("s2")
    /\ (now - activeRecordings["s2"].startTime) * TickMs = OneHourMs
    /\ activeRecordings["s2"].chunks = <<1>>
    /\ activeRecordings["s2"].isPaused

\* recording-completed and pipeline recording-error events emitted for s
TerminalEvents(s) ==
    emitted[s]["recording-completed"].all
    + emitted[s][ErrNoChunks].all + emitted[s][ErrNoRow].all + emitted[s][ErrDb].all
    + emitted[s][ErrTranscribe].all + emitted[s][ErrSummarize].all

\* C20: if every awaited call returns or throws, a session whose pipeline has
\* been started eventually is finished: no run in flight, its registry entry
\* removed, and exactly one recording-completed or recording-error emitted
\* for it.
C20_EventuallyOneTerminal ==
    \A s \in Sessions :
        InFlight(s) ~> (~InFlight(s) /\ ~Has(s) /\ TerminalEvents(s) = 1)

\* every run eventually ends, and the step that ends it removes the entry and
\* emits one terminal event
EveryRunEnds ==
    /\ \A s \in Sessions : \A i \in 1..MaxEvents :
          (i \in DOMAIN pipes[s]) ~> (i \in DOMAIN pipes[s] /\ pipes[s][i].pc = "done")
    /\ [](\A s \in Sessions :
            TerminalEvents(s) = Cardinality(RunsWith(s, "completed") \cup RunsWith(s, "error")))
    /\ [][\A s \in Sessions : \A i \in 1..Len(pipes[s]) :
            (pipes[s][i].pc # "done" /\ pipes'[s][i].pc = "done") =>
               s \notin DOMAIN activeRecordings']_vars

\* C21: on the success path transcribeAudio returns and transcription-update
\* is emitted, then generateSummary returns, then the row is written with
\* status COMPLETED and recording-completed is emitted by the same step; the
\* transcript, summary and duration of the event are those written to the row.
C21_SuccessOrder ==
    /\ [](\A s \in Sessions : \A i \in 1..Len(pipes[s]) :
            LET p == pipes[s][i]
            IN /\ p.summary # NoText => p.transcript # NoText
               /\ p.pc \in {"findUnique", "transcribe"} => p.transcript = NoText
               /\ p.pc \in {"findUnique", "transcribe", "summarize"} => p.summary = NoText
               /\ p.outcome = "completed" <=> p.result # NoResult
               /\ p.outcome = "completed" =>
                     /\ p.result.transcript = TranscribeAudio(p.blob)
                     /\ p.result.summary = GenerateSummary(p.result.transcript)
                     /\ p.result.duration = p.duration)
    /\ [][\A s \in Sessions :
            /\ emitted'[s]["transcription-update"] # emitted[s]["transcription-update"] =>
                  \E i \in 1..Len(pipes[s]) :
                     /\ pipes[s][i].pc = "transcribe"
                     /\ pipes'[s][i].pc = "summarize"
                     /\ pipes'[s][i].transcript = TranscribeAudio(pipes[s][i].blob)
                     /\ emitted'[s]["recording-completed"] = emitted[s]["recording-completed"]
                     /\ db' = db
            /\ emitted'[s]["recording-completed"] # emitted[s]["recording-completed"] =>
                  \E i \in 1..Len(pipes[s]) :
                     /\ pipes[s][i].pc = "update"
                     /\ pipes[s][i].summary # NoText
                     /\ emitted[s]["transcription-update"].all > 0
                     /\ pipes'[s][i].pc = "done"
                     /\ db'[s].status = "COMPLETED"
                     /\ db'[s].transcript = pipes'[s][i].result.transcript
                     /\ db'[s].summary = pipes'[s][i].result.summary
                     /\ db'[s].duration = pipes'[s][i].result.duration]_vars

C21_Witness ==
    /\ Len(pipes["s1"]) = 1
    /\ pipes["s1"][1].outcome = "completed"
    /\ pipes["s1"][1].result = [transcript |-> TranscribeAudio(<<1, 2>>),
                                summary |-> GenerateSummary(TranscribeAudio(<<1, 2>>)),
                                duration |-> 3600]
    /\ emitted["s1"]["transcription-update"].all = 1
    /\ emitted["s1"]["recording-completed"].all = 1
    /\ db["s1"] = [status |-> "COMPLETED",
                   transcript |-> TranscribeAudio(<<1, 2>>),
                   summary |-> GenerateSummary(TranscribeAudio(<<1, 2>>)),
                   duration |-> 3600]

\* C22: the durable duration is a non-negative number of seconds, present only
\* when a run of the session has completed, and written by at most one run of
\* the session.
C22_DurationOnce ==
    \A s \in DOMAIN db :
        /\ db[s].duration = NoDuration \/ db[s].duration >= 0
        /\ db[s].duration # NoDuration => RunsWith(s, "completed") # {}
        /\ Cardinality(RunsWith(s, "completed")) <= 1

\* C23: an entry keeps the owner it was created with for as long as it is in
\* the registry; an audio-chunk of another connection is appended to it
\* without changing the owner; the disconnect of a connection that is not the
\* owner leaves the entry in place, the disconnect of the owner removes it.
C23_OwnerFixed ==
    /\ [](\A s \in DOMAIN activeRecordings : activeRecordings[s].socketId \in Conns)
    /\ [][\A s \in Sessions :
            /\ (Has(s) /\ s \in DOMAIN activeRecordings') =>
                  activeRecordings'[s].socketId = activeRecordings[s].socketId
            /\ \A c \in Conns, f \in BOOLEAN :
                  (Has(s) /\ activeRecordings[s].socketId # c /\ AudioChunk(c, s, f)) =>
                     /\ activeRecordings'[s].chunks =
                           Append(activeRecordings[s].chunks, nextChunk'[s])
                     /\ activeRecordings'[s].socketId = activeRecordings[s].socketId
            /\ \A c \in Conns :
                  (Has(s) /\ Disconnect(c)) =>
                     (s \in DOMAIN activeRecordings' <=> activeRecordings[s].socketId # c)]_vars

\* an entry owned by c1 holds every chunk received so far and is still in the
\* registry although c2 has disconnected
C23_Witness ==
    /\ Has("s1")
    /\ activeRecordings["s1"].socketId = "c1"
    /\ activeRecordings["s1"].chunks = <<1, 2, 3>>
    /\ conn["c1"] = "open"
    /\ conn["c2"] = "closed"

\* C24: an audio-chunk whose recordingId or chunk is missing changes nothing
\* in the registry, emits no audio-chunk-received and one recording-error to
\* the sender, and leaves the connection open: its handlers keep running.
C24_InvalidChunkRejected ==
    /\ [](\A c \in Conns : \A s \in Sessions :
            (conn[c] = "open" /\ nEvents < MaxEvents) =>
               /\ ENABLED AudioChunk(c, s, FALSE)
               /\ ENABLED CompleteRecording(c, s))
    /\ [][\A rid \in Sessions \cup {NoId} :
            received'[rid] = Append(received[rid], EvInvalidChunk) =>
               /\ activeRecordings' = activeRecordings
               /\ nextChunk' = nextChunk
               /\ \E k \in {ErrInvalidChunk, ErrTypeError} :
                     emitted' = SocketEmit(emitted, rid, k)
               /\ UNCHANGED <<db, conn, pipes, pending>>]_vars

\* c1, the only connection ever opened, sent two malformed chunks and then a
\* well-formed one, which was buffered and acknowledged
C24_Witness ==
    /\ conn["c1"] = "open"
    /\ conn["c2"] = "idle"
    /\ received[NoId] = <<EvInvalidChunk>>
    /\ received["s1"] = <<EvInvalidChunk, EvChunk>>
    /\ emitted[NoId][ErrInvalidChunk].one = 1
    /\ emitted["s1"][ErrTypeError].one = 1
    /\ emitted["s1"]["audio-chunk-received"].one = 1
    /\ Has("s1")
    /\ activeRecordings["s1"].chunks = <<1>>

\* the chunks whose transcriptions are part of a transcript
TranscribedChunks(text) == {text.of[i] : i \in 1..Len(text.of)}

\* C25: in the per-chunk variant the persisted transcript is append-only: the
\* transcription of every final chunk whose handler has written the row is
\* part of the row's transcript, also when several handlers ran concurrently.
C25_NoLostUpdate ==
    \A h \in chunkHandlers :
        (h.outcome = "written" /\ h.rid \in DOMAIN db) =>
           h.chunk \in TranscribedChunks(db[h.rid].transcript)

\* C26: when the client stops a recording that collected at least one chunk,
\* the server handles complete-recording only after the isFinal audio-chunk of
\* that recording.
C26_CompleteAfterFinal ==
    client.hadChunks =>
       LET log == received[client.rid]
       IN \A i \in 1..Len(log) :
             log[i] = EvComplete => \E j \in 1..(i - 1) : log[j] = EvFinalChunk

\* C27: every registry entry holds at least one chunk, and complete-recording
\* never reports 'No audio data received for processing'.
C27_EntryHasChunk ==
    /\ \A s \in DOMAIN activeRecordings : Len(activeRecordings[s].chunks) >= 1
    /\ \A rid \in Sessions \cup {NoId} : emitted[rid][ErrNoData].one = 0

\* complete-recording was handled for a registered session and started a run
C27_Witness ==
    /\ Has("s1")
    /\ Len(activeRecordings["s1"].chunks) = 1
    /\ Len(pipes["s1"]) = 1
    /\ received["s1"] = <<EvChunk, EvComplete>>

\* run i of session s finishes in this step (success or failure)
Finishes(s, i) ==
    /\ i \in DOMAIN pipes[s]
    /\ pipes[s][i].pc # "done"
    /\ pipes'[s][i].pc = "done"

\* the entry is the one whose chunks run p combined: chunk ids are never
\* reused and an entry never loses a chunk, so its first chunk identifies it
ProcessedBy(entry, p) ==
    /\ Len(p.blob) > 0
    /\ Len(entry.chunks) > 0
    /\ entry.chunks[1] = p.blob[1]
    /\ entry.startTime = p.startTime

\* C28: a pipeline run that finishes removes from the registry only the entry
\* whose chunks it processed; an entry re-created for the session by a later
\* audio-chunk is left in place.
C28_DeletesOwnEntry ==
    [][\A s \in Sessions : \A i \in 1..MaxEvents :
          (Finishes(s, i) /\ Has(s) /\ s \notin DOMAIN activeRecordings')
             => ProcessedBy(activeRecordings[s], pipes[s][i])]_vars

\* C29: the audio a run passes to transcribeAudio is the sequence of chunks
\* the session's entry held when complete-recording was handled: the run
\* starts with exactly those chunks, keeps them whatever is appended later,
\* and its transcript is the transcription of exactly those chunks.
C29_TranscribesSnapshot ==
    [][\A s \in Sessions : \A i \in 1..MaxEvents :
          /\ (i = Len(pipes[s]) + 1 /\ Len(pipes'[s]) = i /\ Has(s))
                => pipes'[s][i].blob = activeRecordings[s].chunks
          /\ (i \in DOMAIN pipes[s])
                => pipes'[s][i].blob = pipes[s][i].blob
          /\ (i \in DOMAIN pipes[s] /\ pipes[s][i].transcript = NoText
                                    /\ pipes'[s][i].transcript # NoText)
                => pipes'[s][i].transcript = TranscribeAudio(pipes[s][i].blob)]_vars

\* a chunk arrived while the run was awaiting and the run transcribed only
\* the chunk buffered at complete-recording
C29_Witness ==
    /\ Has("s1")
    /\ activeRecordings["s1"].chunks = <<1, 2>>
    /\ received["s1"] = <<EvChunk, EvComplete, EvChunk>>
    /\ Len(pipes["s1"]) = 1
    /\ pipes["s1"][1].transcript = TranscribeAudio(<<1>>)

\* events only processRecordingWithGemini emits / only the handlers emit
PipelineOnlyKinds == {"transcription-update", "recording-completed"} \cup PipelineErrors

HandlerOnlyKinds == {"audio-chunk-received", "status:PAUSED", "status:RECORDING"}
                       \cup HandlerErrors

\* the step belongs to a handler: an event is taken, or a pause/resume
\* handler resumes after its await
HandlerStep == nEvents' = nEvents + 1 \/ pending' # pending

\* the step belongs to a run of the pipeline: one starts or one moves on
PipelineStep == pipes' # pipes

\* C30: whatever a run of the pipeline emits goes to every client (io.emit),
\* whatever a handler emits goes to the socket of the triggering event only
\* (socket.emit): broadcasts happen only in pipeline steps and are of the
\* pipeline's events, single-socket emits happen only in handler steps and
\* are of the handlers' events.
C30_BroadcastVsSender ==
    /\ [](\A rid \in Sessions \cup {NoId} :
             /\ \A k \in PipelineOnlyKinds : emitted[rid][k].one = 0
             /\ \A k \in HandlerOnlyKinds : emitted[rid][k].all = 0)
    /\ [][emitted' # emitted => \A rid \in Sessions \cup {NoId} : \A k \in Kinds :
             /\ emitted'[rid][k].all # emitted[rid][k].all
                   => /\ PipelineStep
                      /\ k \in PipelineOnlyKinds \cup {"status:PROCESSING"}
             /\ emitted'[rid][k].one # emitted[rid][k].one
                   => /\ HandlerStep
                      /\ k \in HandlerOnlyKinds \cup {"status:PROCESSING"}
             /\ (PipelineStep /\ ~HandlerStep)
                   => emitted'[rid][k].one = emitted[rid][k].one]_vars

\* a session whose handlers answered the sender and whose run broadcast its
\* status, its transcript and its completion
C30_Witness ==
    /\ emitted["s1"]["audio-chunk-received"] = [one |-> 1, all |-> 0]
    /\ emitted["s1"]["status:PROCESSING"] = [one |-> 1, all |-> 1]
    /\ emitted["s1"]["transcription-update"] = [one |-> 0, all |-> 1]
    /\ emitted["s1"]["recording-completed"] = [one |-> 0, all |-> 1]
====
